---- MODULE Spec2Model ----
(***************************************************************************)
(* Discord counting enforcer bot (src/bot.py): the message handler         *)
(* CountingBot.on_message as a state machine.                              *)
(*                                                                         *)
(* on_message is a coroutine run by a single-threaded event loop.  It can  *)
(* only be suspended at `await message.delete()` (lines 66, 76, 95, 104);  *)
(* everything it does before reaching one of these lines, or returning,    *)
(* runs without interruption.  OnMessage(m) is that first segment, and     *)
(* DeleteSucceeds / DeleteFails are the segment after the await.           *)
(***************************************************************************)
EXTENDS Integers, Sequences, FiniteSets, TLC

\* Longest message text drawn as an input.
MaxLen == 2
\* Most handlers suspended at an awaited delete at the same time.
MaxInFlight == 1
\* Longest message text drawn as an input where the texts hold signs and
\* decimal points as well.
MaxText == 3
\* The count up to which the members keep posting the next number.
MaxCount == 5

(***************************************************************************)
(* Python values                                                           *)
(***************************************************************************)
\* Python's None, and a value that is not None.
None == <<>>
Some(x) == <<x>>

\* The characters message texts are drawn from.  "U+FF11" and "U+FF16" are
\* the full-width digits one and six: str.isdigit(), \d and int() take them
\* for digits, [0-9] does not.
Whitespace == {" "}
FullWidthOne == "U+FF11"
FullWidthSix == "U+FF16"
Chars == {"0", "1", "2", "3"} \cup Whitespace \cup {FullWidthOne}

\* Message texts: every string over Chars of at most MaxLen characters.
Contents == UNION {[1..n -> Chars] : n \in 0..MaxLen}

\* Texts around the numbers 5 and 6: digits, whitespace, a sign, a decimal
\* point and a digit that is not ASCII, at most MaxText characters.
TextChars == {"5", "6", "+", "."} \cup Whitespace \cup {FullWidthSix}
TextContents == UNION {[1..n -> TextChars] : n \in 0..MaxText}

DecimalDigits == <<"0", "1", "2", "3", "4", "5", "6", "7", "8", "9">>

\* The characters the class [0-9] holds.
AsciiDigits == {DecimalDigits[i] : i \in 1..Len(DecimalDigits)}

\* The value int() gives one decimal digit, ASCII or not.
DigitValue(c) ==
    IF c = FullWidthOne THEN 1
    ELSE IF c = FullWidthSix THEN 6
    ELSE (CHOOSE i \in 1..Len(DecimalDigits) : DecimalDigits[i] = c) - 1

RECURSIVE lstrip(_)
\* str.lstrip(): drop leading whitespace.
lstrip(s) ==
    IF s # <<>> /\ Head(s) \in Whitespace THEN lstrip(Tail(s)) ELSE s

RECURSIVE rstrip(_)
\* str.rstrip(): drop trailing whitespace.
rstrip(s) ==
    IF s # <<>> /\ s[Len(s)] \in Whitespace
    THEN rstrip(SubSeq(s, 1, Len(s) - 1))
    ELSE s

\* lstrip() in place of strip(): trailing whitespace stays.
strip_leading_only(s) == lstrip(s)

\* rstrip() in place of strip(): leading whitespace stays.
strip_trailing_only(s) == rstrip(s)

\* str.strip() of line 60.
strip(s) == rstrip(lstrip(s))

\* The pattern 0|[1-9][0-9]*: no leading zeros.
re_match_no_leading_zero(content) ==
    /\ Len(content) >= 1
    /\ \A i \in 1..Len(content) : content[i] \in AsciiDigits
    /\ Len(content) > 1 => content[1] # "0"

\* The pattern with \d for [0-9]: any Unicode decimal digit matches.
re_match_unicode_digits(content) ==
    /\ Len(content) >= 1
    /\ \A i \in 1..Len(content) :
        content[i] \in AsciiDigits \cup {FullWidthOne, FullWidthSix}

\* The pattern without its `+`: exactly one digit.
re_match_one_digit(content) ==
    /\ Len(content) = 1
    /\ content[1] \in AsciiDigits

\* re.match(r'^[0-9]+$', content) of line 73: one or more characters, each of
\* them in 0-9.  (`$` would also match before a final newline; strip() has
\* removed any, and Chars holds none.)
re_match_digits(content) ==
    /\ Len(content) >= 1
    /\ \A i \in 1..Len(content) : content[i] \in AsciiDigits

RECURSIVE int(_)
\* int(content) of line 82, on a string of ASCII digits: base 10, leading
\* zeros allowed, no upper limit.
int(content) ==
    IF content = <<>>
    THEN 0
    ELSE 10 * int(SubSeq(content, 1, Len(content) - 1))
         + DigitValue(content[Len(content)])

RECURSIVE str(_)
\* str(n) of lines 88 and 101, for n >= 0: the decimal digits of n.
str(n) ==
    IF n < 10
    THEN <<DecimalDigits[n + 1]>>
    ELSE str(n \div 10) \o <<DecimalDigits[(n % 10) + 1]>>

(***************************************************************************)
(* Configuration and inputs                                                *)
(***************************************************************************)
\* self.user, the bot's own account.
user == 90
\* self.server_id and self.channel_id, set at construction.
server_id == 70
channel_id == 50

MemberIds == {11, 12}
AuthorIds == MemberIds \cup {user}
GuildIds == {server_id, server_id + 1}
ChannelIds == {channel_id, channel_id + 1}

\* A discord.Message as on_message reads it.  guild is None for a direct
\* message.
Messages ==
    [author : AuthorIds,
     guild : {None} \cup {Some(g) : g \in GuildIds},
     channel : ChannelIds,
     content : Contents]

\* Messages sent between the next numbers: empty, not a number, a number
\* that is the seed or is out of turn, in the monitored channel or another.
NoiseContents == {<<>>, <<"1">>, <<"2">>, <<FullWidthOne>>}
NoiseMessages ==
    [author : MemberIds,
     guild : {Some(server_id)},
     channel : ChannelIds,
     content : NoiseContents]

\* The messages members send in the monitored channel, with the texts of
\* TextContents.
TextMessages ==
    [author : MemberIds,
     guild : {Some(server_id)},
     channel : {channel_id},
     content : TextContents]

(***************************************************************************)
(* How a message reads to the members of the channel                       *)
(***************************************************************************)
\* The message is not the bot's own and comes from the monitored channel of
\* the monitored server.
InScope(m) ==
    /\ m.author # user
    /\ m.guild # None
    /\ m.guild[1] = server_id
    /\ m.channel = channel_id

\* The text without its leading and trailing whitespace.
Trimmed(text) ==
    LET solid == {i \in 1..Len(text) : text[i] \notin Whitespace} IN
    IF solid = {}
    THEN <<>>
    ELSE LET first == CHOOSE i \in solid : \A j \in solid : i <= j
             final == CHOOSE i \in solid : \A j \in solid : j <= i
         IN [i \in 1..(final - first + 1) |-> text[first + i - 1]]

\* The text is one or more ASCII digits and nothing else.
OnlyAsciiDigits(text) ==
    /\ text # <<>>
    /\ \A i \in 1..Len(text) :
        \E d \in 1..Len(DecimalDigits) : text[i] = DecimalDigits[d]

RECURSIVE Horner(_, _)
Horner(acc, text) ==
    IF text = <<>>
    THEN acc
    ELSE Horner(10 * acc
                + ((CHOOSE d \in 1..Len(DecimalDigits) : DecimalDigits[d] = Head(text)) - 1),
                Tail(text))

\* The integer a string of ASCII digits denotes.
Value(text) == Horner(0, text)

\* The number a text shows: Some(n) for n in ASCII digits with whitespace
\* around it at most, None for anything else.
Shown(text) ==
    IF OnlyAsciiDigits(Trimmed(text))
    THEN Some(Value(Trimmed(text)))
    ELSE None

(***************************************************************************)
(* State                                                                   *)
(***************************************************************************)
VARIABLES
    count,               \* self.count: None or Some(integer)
    previous_author_id,  \* self.previous_author_id: None or Some(string)
    awaiting,            \* how many handlers are suspended at an awaited delete
    last,                \* the handler segment the event loop has just run:
                         \* what it read of its message, the state before
                         \* it and the line it reached
    accepted,            \* the messages that updated the state, oldest first
    seq,                 \* the state had every message been handled alone
    resumed,             \* the handler the event loop has just resumed after
                         \* its delete: how the delete ended, the state before
    visible              \* the in-scope messages since the first update for
                         \* which no delete was requested, oldest first

vars ==
    <<count, previous_author_id, awaiting, last, accepted, seq, resumed, visible>>

\* The lines at which on_message awaits message.delete().
DeleteLines == {"L66", "L76", "L95", "L104"}
\* The lines at which on_message returns without having read the content.
IgnoreLines == {"L50", "L54", "L57"}
\* The lines at which on_message returns having updated the state.
AcceptLines == {"L90", "L112"}

State(c, p) == [count |-> c, previous_author_id |-> p]

\* __init__, lines 28-30.
InitialState == State(None, None)

\* The checks of lines 49-54 without the channel check of line 56.
ignored_any_channel(message) ==
    IF message.author = user THEN "L50"
    ELSE IF message.guild = None \/ message.guild # Some(server_id) THEN "L54"
    ELSE "no"

\* Lines 49-57: the message is the bot's own, or not from the monitored
\* server, or not from the monitored channel.
ignored(message) ==
    IF message.author = user THEN "L50"
    ELSE IF message.guild = None \/ message.guild # Some(server_id) THEN "L54"
    ELSE IF message.channel # channel_id THEN "L57"
    ELSE "no"

\* The test of lines 64 and 74 inverted.
delete_malformed_inverted(self) == self.count = None

\* Lines 64 and 74: a message that fails the format checks is deleted only
\* once the state is initialized.
delete_malformed(self) == self.count # None

\* abs(parsed_number - self.count) == 1: the number before passes too.
is_adjacent(parsed_number, self) ==
    \/ parsed_number = self.count[1] + 1
    \/ parsed_number = self.count[1] - 1

\* Only a number beyond the next one is turned away: repeats pass.
is_at_most_next(parsed_number, self) == parsed_number <= self.count[1] + 1

\* Any number above the count, instead of the next one.
is_greater(parsed_number, self) == parsed_number > self.count[1]

\* Line 93, negated: the number is the next one.
is_increment(parsed_number, self) == parsed_number = self.count[1] + 1

\* The comparison of line 102 with != for ==.
is_not_previous_author(current_author_id, self) ==
    Some(current_author_id) # self.previous_author_id

\* The author's integer id compared with the stored string: never equal.
is_previous_author_as_int(current_author_id, self) == FALSE

\* Line 102: the author is the previous one.
is_previous_author(current_author_id, self) ==
    Some(current_author_id) = self.previous_author_id

\* The update without its second assignment.
updated_keeps_author(self, parsed_number, author_id) ==
    State(Some(parsed_number), self.previous_author_id)

\* The update counting from 1 instead of storing the number read.
updated_restart(self, parsed_number, author_id) ==
    State(Some(IF self.count = None THEN 1 ELSE self.count[1] + 1),
          Some(str(author_id)))

\* Lines 87-88 and 110-111: the state update.
updated(self, parsed_number, author_id) ==
    State(Some(parsed_number), Some(str(author_id)))

(***************************************************************************)
(* on_message, lines 38-112, up to its return or its first await.  The      *)
(* result is the state it leaves and the line it has reached.              *)
(***************************************************************************)
on_message(self, message) ==
    LET content == strip(message.content)
        at(line) == [state |-> self, line |-> line]
    IN
    IF ignored(message) # "no" THEN at(ignored(message))
    ELSE IF content = <<>> THEN
        IF delete_malformed(self) THEN at("L66") ELSE at("L69")
    ELSE IF ~re_match_digits(content) THEN
        IF delete_malformed(self) THEN at("L76") ELSE at("L79")
    ELSE
    LET parsed_number == int(content) IN
    IF self.count = None THEN
        [state |-> updated(self, parsed_number, message.author), line |-> "L90"]
    ELSE IF ~is_increment(parsed_number, self) THEN at("L95")
    ELSE IF is_previous_author(str(message.author), self) THEN at("L104")
    ELSE
        [state |-> updated(self, parsed_number, message.author), line |-> "L112"]

\* A handler that starts the game over when its delete has failed.
after_delete_failure_resets(self, ok) == IF ok THEN self ELSE InitialState

\* A handler that starts the game over once its delete has ended.
after_delete_resets(self, ok) == InitialState

\* The rest of on_message once the awaited delete has ended, the same after
\* each of the four awaits: the exception, if any, is printed (lines 67-68,
\* 77-78, 96-97, 105-106) and the handler returns (lines 69, 79, 98, 107).
\* ok is FALSE when Forbidden or NotFound was raised.
after_delete(self, ok) == self

\* A handler run to its end with nothing else running: r is what its first
\* segment left, and the rest follows when a delete was awaited.
to_end(r) ==
    [state |-> IF r.line \in DeleteLines
               THEN after_delete(r.state, TRUE)
               ELSE r.state,
     line |-> r.line]

\* One message handled with nothing else running.
handle_alone(self, message) == to_end(on_message(self, message))

Init ==
    /\ count = InitialState.count
    /\ previous_author_id = InitialState.previous_author_id
    /\ awaiting = 0
    /\ last = None
    /\ accepted = <<>>
    /\ seq = InitialState
    /\ resumed = None
    /\ visible = <<>>

\* The handler of a message event runs to its return or to its first await.
OnMessage(message) ==
    \E r \in {on_message(State(count, previous_author_id), message)},
       alone \in {handle_alone(seq, message)} :
        /\ r.line \in DeleteLines => awaiting < MaxInFlight
        /\ count' = r.state.count
        /\ previous_author_id' = r.state.previous_author_id
        /\ awaiting' = IF r.line \in DeleteLines THEN awaiting + 1 ELSE awaiting
        /\ last' = Some([author |-> message.author,
                         guild |-> message.guild,
                         channel |-> message.channel,
                         content |-> IF r.line \in IgnoreLines
                                     THEN None
                                     ELSE Some(message.content),
                         before |-> State(count, previous_author_id),
                         line |-> r.line,
                         alone |-> alone.line])
        /\ accepted' = IF r.line \in AcceptLines
                       THEN Append(accepted, message.author)
                       ELSE accepted
        /\ seq' = alone.state
        /\ visible' = IF /\ r.line \notin DeleteLines
                         /\ r.state.count # None
                         /\ InScope(message)
                      THEN Append(visible, [author |-> message.author,
                                            number |-> Shown(message.content)])
                      ELSE visible
        /\ UNCHANGED resumed

\* The event loop, when free, dispatches the next message event.
Dispatch ==
    /\ last = None
    /\ resumed = None
    /\ \E message \in Messages : OnMessage(message)

\* The handler has returned or is suspended: the event loop is free again.
ReturnToLoop ==
    /\ last # None \/ resumed # None
    /\ last' = None
    /\ resumed' = None
    /\ UNCHANGED <<count, previous_author_id, awaiting, accepted, seq, visible>>

\* An awaited delete ends; its handler resumes and returns.
DeleteEnds(ok) ==
    LET self == after_delete(State(count, previous_author_id), ok) IN
    /\ last = None
    /\ resumed = None
    /\ awaiting > 0
    /\ awaiting' = awaiting - 1
    /\ count' = self.count
    /\ previous_author_id' = self.previous_author_id
    /\ resumed' = Some([ok |-> ok, before |-> State(count, previous_author_id)])
    /\ UNCHANGED <<last, accepted, seq, visible>>

DeleteSucceeds == DeleteEnds(TRUE)

\* discord.errors.Forbidden or discord.errors.NotFound is raised and caught.
DeleteFails == DeleteEnds(FALSE)

Next ==
    \/ Dispatch
    \/ ReturnToLoop
    \/ DeleteSucceeds
    \/ DeleteFails

Spec == Init /\ [][Next]_vars

\* The same program where message.delete() never raises: the except clauses
\* of lines 67, 77, 96 and 105 are never entered.
NextDeleted ==
    \/ Dispatch
    \/ ReturnToLoop
    \/ DeleteSucceeds

SpecDeleted == Init /\ [][NextDeleted]_vars

\* The same program with the messages of TextMessages as its input.
DispatchText ==
    /\ last = None
    /\ resumed = None
    /\ \E message \in TextMessages : OnMessage(message)

NextText ==
    \/ DispatchText
    \/ ReturnToLoop
    \/ DeleteSucceeds
    \/ DeleteFails

SpecText == Init /\ [][NextText]_vars

\* The number n as members would write it, sent in scope by author a.
Post(a, n) ==
    [author |-> a, guild |-> Some(server_id), channel |-> channel_id,
     content |-> str(n)]

\* The same program with members who keep the game going: while count is
\* below MaxCount, a member other than the last accepted author posts
\* count + 1, between messages of every other kind and deletes that fail.
PostNext ==
    /\ last = None
    /\ resumed = None
    /\ count # None
    /\ count[1] < MaxCount
    /\ \E a \in MemberIds :
        /\ Some(str(a)) # previous_author_id
        /\ OnMessage(Post(a, count[1] + 1))

\* The last accepted author posts the next number.
PostAgain ==
    /\ last = None
    /\ resumed = None
    /\ count # None
    /\ count[1] < MaxCount
    /\ \E a \in MemberIds :
        /\ Some(str(a)) = previous_author_id
        /\ OnMessage(Post(a, count[1] + 1))

PostNoise ==
    /\ last = None
    /\ resumed = None
    /\ \E message \in NoiseMessages : OnMessage(message)

LiveNext ==
    \/ PostNext
    \/ PostAgain
    \/ PostNoise
    \/ ReturnToLoop
    \/ DeleteSucceeds
    \/ DeleteFails

\* The event loop runs every handler segment to its return or await, and
\* the members post the next number again and again.
LiveSpec ==
    /\ Init
    /\ [][LiveNext]_vars
    /\ WF_vars(ReturnToLoop)
    /\ SF_vars(PostNext)

(***************************************************************************)
(* The terms the properties are stated in                                  *)
(***************************************************************************)
\* The segment the event loop has just run: its message, the state before
\* it and the line it reached.
Handled == last # None
Msg == last[1]
Before == last[1].before
\* The text of the message, empty when the handler returned without reading it.
Text == IF last[1].content = None THEN <<>> ELSE last[1].content[1]
Now == State(count, previous_author_id)

\* The handled message's text, trimmed, is the number n in ASCII digits.
Writes(n) ==
    /\ OnlyAsciiDigits(Trimmed(Text))
    /\ Value(Trimmed(Text)) = n

\* What became of the handled message.
Accepted == last[1].line \in AcceptLines
DeleteRequested == last[1].line \in DeleteLines
Initialized(state) == state.count # None

\* What on_message did with a message, by the line it reached.
Verdict(line) ==
    IF line \in AcceptLines THEN "accept"
    ELSE IF line \in DeleteLines THEN "delete"
    ELSE "leave"

\* The text is one or more ASCII digits followed by whitespace.
DigitsThenSpace(text) ==
    \E k \in 1..(Len(text) - 1) :
        /\ OnlyAsciiDigits(SubSeq(text, 1, k))
        /\ \A i \in (k + 1)..Len(text) : text[i] \in Whitespace

\* The handled message with its text replaced.
MsgWith(text) ==
    [author |-> Msg.author, guild |-> Msg.guild, channel |-> Msg.channel,
     content |-> text]

(***************************************************************************)
(* Properties                                                              *)
(***************************************************************************)

\* C1: once the state is initialized, an in-scope message is accepted if and
\* only if its trimmed text is count + 1 written in ASCII digits and its
\* author is not the last accepted author; otherwise a delete is requested.
C1_AcceptedIffNextByOther ==
    (Handled /\ InScope(Msg) /\ Initialized(Before)) =>
        /\ Accepted <=>
            /\ Writes(Before.count[1] + 1)
            /\ Some(str(Msg.author)) # Before.previous_author_id
        /\ ~Accepted => DeleteRequested

C1_Witness ==
    /\ Handled /\ InScope(Msg) /\ Initialized(Before)
    /\ Accepted
    /\ Text # Trimmed(Text)

\* C2: the text "0" is rejected in every state, the uninitialized one
\* included, so count, when set, is at least 1.
C2_ZeroNeverCounts ==
    /\ (Handled /\ InScope(Msg) /\ Writes(0)) => (~Accepted /\ Now = Before)
    /\ count # None => count[1] >= 1

C4_SeedAccepted ==
    (/\ Handled /\ InScope(Msg) /\ ~Initialized(Before)
     /\ OnlyAsciiDigits(Trimmed(Text))
     /\ Value(Trimmed(Text)) > 0) =>
        /\ Accepted
        /\ ~DeleteRequested
        /\ count = Some(Value(Trimmed(Text)))
        /\ previous_author_id = Some(str(Msg.author))

C4_Witness ==
    /\ Handled /\ InScope(Msg) /\ ~Initialized(Before)
    /\ Writes(10)
    /\ Accepted
    /\ count = Some(10)

\* C5: a message from the bot itself, or without a guild, or from another
\* guild or channel, gets no delete and leaves count and last author as
\* they were, whatever its text and whatever the state.
C5_OutOfScopeIgnored ==
    (Handled /\ ~InScope(Msg)) =>
        /\ ~DeleteRequested
        /\ ~Accepted
        /\ Now = Before

C5_Witness ==
    /\ Handled /\ Initialized(Before)
    /\ Msg.author # user /\ Msg.guild = Some(server_id) /\ Msg.channel # channel_id
    /\ Msg.content = None
    /\ awaiting > 0
    /\ Now = Before

\* C6: once the state is initialized, an in-scope message that is not
\* accepted leaves count and last author as they were and has a delete
\* requested; count + 1 from another author is still accepted afterwards.
C6_RejectionKeepsState ==
    (Handled /\ InScope(Msg) /\ Initialized(Before) /\ ~Accepted) =>
        /\ Now = Before
        /\ DeleteRequested
        /\ \A a \in MemberIds :
            Some(str(a)) # Before.previous_author_id =>
                on_message(Now, Post(a, Before.count[1] + 1)).line \in AcceptLines

C6_Witness ==
    /\ Handled /\ InScope(Msg) /\ Initialized(Before)
    /\ last[1].line = "L95"
    /\ Some(str(Msg.author)) # Before.previous_author_id

\* C7: in the uninitialized state an in-scope message that is empty or is
\* not a positive integer in ASCII digits gets no delete and leaves count
\* and last author none.
C7_UninitializedLeftAlone ==
    (/\ Handled /\ InScope(Msg) /\ ~Initialized(Before)
     /\ ~(/\ OnlyAsciiDigits(Trimmed(Text))
          /\ Value(Trimmed(Text)) > 0)) =>
        /\ ~DeleteRequested
        /\ count = None
        /\ previous_author_id = None

\* C8: no two consecutive accepted messages have the same author, the seed
\* and the message after it included: the next number from the author of
\* the last accepted message is not accepted.
C8_AuthorsAlternate ==
    /\ \A i \in 1..(Len(accepted) - 1) : accepted[i] # accepted[i + 1]
    /\ (Handled /\ Accepted) => accepted[Len(accepted)] = Msg.author

C8_Witness ==
    /\ Handled /\ InScope(Msg) /\ Initialized(Before)
    /\ Writes(Before.count[1] + 1)
    /\ Msg.author = accepted[Len(accepted)]
    /\ DeleteRequested

\* C9: count and last author are both none or both set, in every state,
\* those with a handler suspended at its delete included.
C9_BothOrNeither ==
    (count = None) <=> (previous_author_id = None)

C9_Witness ==
    /\ count # None
    /\ previous_author_id # None
    /\ awaiting > 0

\* C10: right after a message is accepted, count is the integer its text
\* denotes and last author is its author; 1 by A, 2 by B, 3 by A from the
\* uninitialized state end in count 3, last author A.
C10_StateIsAcceptedMessage ==
    (Handled /\ Accepted) =>
        /\ count # None
        /\ Writes(count[1])
        /\ previous_author_id = Some(str(Msg.author))

C10_Witness ==
    /\ Handled /\ Accepted
    /\ accepted = <<11, 12, 11>>
    /\ count = Some(3)
    /\ previous_author_id = Some(<<"1", "1">>)
    /\ Text = <<"3">>

\* C11: a delete that fails (Forbidden, NotFound) leaves count and last
\* author as they were, as a delete that succeeds does, and messages after
\* it are judged as if it had succeeded.
C11_FailedDeleteChangesNothing ==
    resumed # None =>
        /\ Now = resumed[1].before
        /\ Now = after_delete(resumed[1].before, TRUE)
        /\ awaiting = 0 => Now = seq

C11_Witness ==
    /\ resumed # None
    /\ ~resumed[1].ok
    /\ Initialized(Now)
    /\ Len(accepted) >= 2

\* C12: an in-scope message whose trimmed text holds a character that is
\* not one of 0-9 (a sign, a decimal point, whitespace inside, a digit that
\* is not ASCII) is never accepted and leaves count and last author as they
\* were, even when read as a number it would be count + 1.
C12_NonDigitNeverAccepted ==
    (/\ Handled /\ InScope(Msg)
     /\ Trimmed(Text) # <<>>
     /\ ~OnlyAsciiDigits(Trimmed(Text))) =>
        /\ ~Accepted
        /\ Now = Before

C12_Witness ==
    /\ Handled /\ InScope(Msg)
    /\ Before.count = Some(5)
    /\ Some(str(Msg.author)) # Before.previous_author_id
    /\ Text = <<FullWidthSix>>
    /\ DeleteRequested
    /\ Now = Before

\* C13, as stated: the text "6 " is not accepted, even when count is 5 and
\* the author is not the last accepted author.
C13_TrailingSpaceRejected ==
    (/\ Handled /\ InScope(Msg)
     /\ Text = <<"6", " ">>
     /\ Before.count = Some(5)
     /\ Some(str(Msg.author)) # Before.previous_author_id) =>
        ~Accepted

\* C13, amended: ASCII digits followed by whitespace pass the format guard,
\* the whitespace having been trimmed; the message is accepted if the state
\* is uninitialized, or the digits are count + 1 and the author is not the
\* last accepted author, and is rejected by those two rules otherwise.
C13_TrailingSpaceTrimmed ==
    (Handled /\ InScope(Msg) /\ DigitsThenSpace(Text)) =>
        /\ last[1].line \notin {"L66", "L69", "L76", "L79"}
        /\ Accepted <=>
            \/ ~Initialized(Before)
            \/ /\ Writes(Before.count[1] + 1)
               /\ Some(str(Msg.author)) # Before.previous_author_id

C13_Witness ==
    /\ Handled /\ InScope(Msg)
    /\ Text = <<"6", " ">>
    /\ Before.count = Some(5)
    /\ Some(str(Msg.author)) # Before.previous_author_id
    /\ Accepted
    /\ count = Some(6)

\* C14: whitespace around the text is removed before any rule: in every
\* state and for every author, a padded text gets the verdict, the delete
\* decision and the next state of the text without its padding.
C14_PaddingMakesNoDifference ==
    (Handled /\ InScope(Msg) /\ Text # Trimmed(Text)) =>
        on_message(Before, MsgWith(Trimmed(Text)))
            = [state |-> Now, line |-> last[1].line]

C14_Witness ==
    /\ Handled /\ InScope(Msg)
    /\ Text = <<" ", "6", " ">>
    /\ Before.count = Some(5)
    /\ Accepted
    /\ count = Some(6)

\* C15: a text of ASCII digits with leading zeros is judged by its integer
\* value: once initialized it is accepted exactly when the value is
\* count + 1 and the author is not the last accepted author, and in the
\* uninitialized state it is accepted as the seed when the value is positive.
C15_LeadingZerosByValue ==
    (/\ Handled /\ InScope(Msg)
     /\ OnlyAsciiDigits(Trimmed(Text))
     /\ Len(Trimmed(Text)) >= 2
     /\ Trimmed(Text)[1] = "0") =>
        /\ Initialized(Before) =>
            (Accepted <=>
                /\ Value(Trimmed(Text)) = Before.count[1] + 1
                /\ Some(str(Msg.author)) # Before.previous_author_id)
        /\ (~Initialized(Before) /\ Value(Trimmed(Text)) > 0) => Accepted
        /\ Accepted => count = Some(Value(Trimmed(Text)))

C15_Witness ==
    /\ Handled /\ InScope(Msg)
    /\ Text = <<"0", "2">>
    /\ Before.count = Some(1)
    /\ Accepted
    /\ count = Some(2)

\* C16: with every requested delete succeeding, the in-scope messages left
\* in the channel from the seed onward are the accepted ones in order: their
\* numbers are seed, seed + 1, seed + 2, ... without gap or repeat, ending
\* at count, and neighbours have different authors.
C16_VisibleIsAcceptedRun ==
    /\ Len(visible) = Len(accepted)
    /\ \A i \in 1..Len(visible) :
        /\ visible[i].author = accepted[i]
        /\ visible[i].number # None
    /\ \A i \in 1..(Len(visible) - 1) :
        /\ visible[i + 1].number[1] = visible[i].number[1] + 1
        /\ visible[i + 1].author # visible[i].author
    /\ visible # <<>> => count = visible[Len(visible)].number

C16_Witness ==
    /\ Len(visible) >= 3
    /\ resumed # None
    /\ resumed[1].ok
    /\ awaiting = 0

\* C17: every step leaves count and last author as they are, or takes the
\* state from uninitialized to initialized, or raises count by exactly 1:
\* count never decreases or skips, and is never reset to none.
C17_CountStepsByOne ==
    [][\/ UNCHANGED <<count, previous_author_id>>
       \/ count = None /\ count' # None
       \/ /\ count # None
          /\ count' # None
          /\ count'[1] = count[1] + 1]_vars

C17_Witness ==
    /\ Handled /\ Accepted
    /\ Initialized(Before)
    /\ count = Some(Before.count[1] + 1)
    /\ Len(accepted) >= 3
    /\ awaiting > 0

\* C18: in every initialized state count + 1 from any member other than the
\* last accepted author is accepted, and there is such a member; and when
\* the members keep posting it, count reaches every value above it, whatever
\* rejected, out-of-scope and failed-delete messages come in between.
C18_CountKeepsGrowing ==
    /\ [](count # None =>
            /\ \E a \in MemberIds : Some(str(a)) # previous_author_id
            /\ \A a \in MemberIds :
                Some(str(a)) # previous_author_id =>
                    on_message(Now, Post(a, count[1] + 1))
                        = [state |-> State(Some(count[1] + 1), Some(str(a))),
                           line |-> "L112"])
    /\ \A n \in 1..MaxCount :
        (count # None /\ count[1] < n) ~> (count = Some(n))

C18_Witness ==
    /\ count = Some(MaxCount)
    /\ Len(accepted) >= 4
    /\ resumed # None
    /\ ~resumed[1].ok

====
